---- MODULE Spec2Model ----
(***************************************************************************)
(* Product-search gateway of shopgpt: the two MCP scraper services         *)
(* (mcp_server/amazon_mcp.py, mcp_server/flipkart_mcp.py).  One service    *)
(* process is modelled: its scraper object with the in-memory cache, the   *)
(* POST /mcp handler, and the asynchronous search_products calls, which    *)
(* interleave at their await points.                                       *)
(***************************************************************************)
EXTENDS Integers, Sequences, FiniteSets, TLC

VARIABLES
    platform,       \* which service this process is: "amazon" or "flipkart"
    clock,          \* time.time(), in whole seconds
    session_cache,  \* scraper.session_cache: cache key -> result
    pc,             \* per request task: where its coroutine stands
    req,            \* per request task: the request body it was given
    loc,            \* per request task: locals of search_products
    response,       \* per request task: the response envelope built
    events,         \* per request task: events yielded by stream()
    raised,         \* per request task: exception that left mcp_handler
    scan            \* one run of the candidate loop taken item by item

vars == <<platform, clock, session_cache, pc, req, loc, response, events, raised, scan>>

----------------------------------------------------------------------------
\* Bounds of the model.

MaxRequests == 2
MaxTime == 300
MaxPageLen == 13
MaxMixLen == 3
MaxSelectors == 2
MaxNameLen == 81
MaxCeiling == 2600
MaxPriceLen == 4
MaxLinks == 2

\* Constants of the program.

cache_timeout == 300
TopItems == 12
MaxProducts == 6
DefaultPriceMax == 40000
FallbackCap == 1500
AsinLen == 10
MinIdLen == 3
MinNameLen == 5
NameCut == 80
InternalError == -32603
DefaultId == 1

Tasks == 1..MaxRequests

\* The clock moves in steps that land just inside and exactly on the TTL.
TickSteps == {cache_timeout - 1, cache_timeout}

Min(a, b) == IF a < b THEN a ELSE b

----------------------------------------------------------------------------
\* Numbers and strings as Python sees them.

\* A JSON argument value: an int, a float (whole-valued here) or a string
\* holding a decimal numeral.
Num(t, v) == [t |-> t, v |-> v]

IsNumber(p) == p.t \in {"int", "float"}

\* str(x) as used by the f-string of the cache key: an int prints its
\* digits, a float prints digits and ".0", a string prints itself.
PyStr(p) == IF p.t = "float" THEN <<p.v, ".0">> ELSE <<p.v, "">>

\* int(x) of a float: truncation toward zero.
PyInt(num, den) == IF num >= 0 THEN num \div den ELSE -((-num) \div den)

\* f"{query}:{price_max}"
CacheKey(query, price_max) == <<query, PyStr(price_max)>>

----------------------------------------------------------------------------
\* Text.  A string whose content matters only through its identity and its
\* length is a record [s, n]; None is NoneText.  A string that is parsed
\* (a price text, an item's text) is a sequence of one-character strings.

Text(s, n) == [s |-> s, n |-> n]
NoneText == [s |-> "None", n |-> -1]
\* an attribute read that raises instead of giving a value
RaiseText == [s |-> "raise", n |-> -2]

\* Python truthiness of an Optional[str]: None and "" are false.
Truthy(x) == x.n > 0

\* x[:k]
Cut(x, k) == [x EXCEPT !.n = Min(x.n, k)]

\* the rupee sign, one character
Rupee == "rupee"

Digits == {"0", "1", "2", "3", "4", "5", "6", "7", "8", "9"}
Whitespace == {" ", "\t", "\n"}

DigitVal(c) ==
    CASE c = "0" -> 0 [] c = "1" -> 1 [] c = "2" -> 2 [] c = "3" -> 3
      [] c = "4" -> 4 [] c = "5" -> 5 [] c = "6" -> 6 [] c = "7" -> 7
      [] c = "8" -> 8 [] c = "9" -> 9

\* int(s) of a string of digits
RECURSIVE ToInt(_)
ToInt(s) == IF s = << >> THEN 0 ELSE 10 * ToInt(SubSeq(s, 1, Len(s) - 1)) + DigitVal(s[Len(s)])

\* re.sub / str.replace: drop every character of the set
RECURSIVE Strip(_, _)
Strip(s, drop) ==
    IF s = << >> THEN << >>
    ELSE IF Head(s) \in drop THEN Strip(Tail(s), drop)
    ELSE <<Head(s)>> \o Strip(Tail(s), drop)

\* the index just past the run of characters of the set that starts at i
RECURSIVE RunEnd(_, _, _)
RunEnd(s, i, set) == IF i <= Len(s) /\ s[i] \in set THEN RunEnd(s, i + 1, set) ELSE i

\* re.findall(r'\d+', s)[0] when there is one, else << >>
RECURSIVE FirstDigitRun(_)
FirstDigitRun(s) ==
    IF s = << >> THEN << >>
    ELSE IF Head(s) \in Digits THEN SubSeq(s, 1, RunEnd(s, 1, Digits) - 1)
    ELSE FirstDigitRun(Tail(s))

\* amazon: re.sub(r'[rupee,\s.]', '', price_text), then the first digit run
AmazonPriceClean(price_text) == Strip(price_text, {Rupee, ",", "."} \cup Whitespace)

\* flipkart: .replace(rupee,'').replace(',','').replace(' ','')
FlipkartPriceClean(price_text) == Strip(price_text, {Rupee, ",", " "})

----------------------------------------------------------------------------
\* What a result item of the page answers to the scraper's queries.
\*   id      the data-asin / data-id attribute (NoneText when absent)
\*   names   per name selector, in the order tried: what query_selector
\*           gives -- st "none" (no match), "raise" (the call raises) or
\*           "el" with the element's stripped inner text and title attribute
\*   prices  per price selector, in the order tried: st and the inner text
\*   text    the inner text of the whole item
\* amazon uses one combined selector for each field: names[1], prices[1].

NoEl == [st |-> "none", inner |-> NoneText, title |-> NoneText, text |-> << >>]
RaiseEl == [st |-> "raise", inner |-> NoneText, title |-> NoneText, text |-> << >>]
NameEl(inner, title) == [st |-> "el", inner |-> inner, title |-> title, text |-> << >>]
PriceEl(text) == [st |-> "el", inner |-> NoneText, title |-> NoneText, text |-> text]

Item(id, names, prices, text) == [id |-> id, names |-> names, prices |-> prices, text |-> text]

\* selector k of a field, "none" past the ones the item describes
Sel(els, k) == IF k <= Len(els) THEN els[k] ELSE NoEl

\* A product record; None is NoProduct.
Product(name, price_num, id, plat) ==
    [ok |-> TRUE, name |-> name, price_num |-> price_num, id |-> id, platform |-> plat]
NoProduct == [ok |-> FALSE, name |-> NoneText, price_num |-> 0, id |-> NoneText, platform |-> "none"]

\* price_num > price_max: in Python an int against a str raises TypeError,
\* which _extract_* catches and turns into None like an over-budget price.
OverBudget(price_num, price_max) == ~IsNumber(price_max) \/ price_num > price_max.v

\* AmazonScraper._extract_with_asin
ExtractWithAsin(item, asin, price_max) ==
    LET name_el == Sel(item.names, 1)
        price_el == Sel(item.prices, 1)
        nums == FirstDigitRun(AmazonPriceClean(price_el.text))
    IN  IF name_el.st = "raise" THEN NoProduct           \* except Exception: return None
        ELSE IF name_el.st = "none" THEN NoProduct       \* if not name_el
        ELSE IF name_el.inner.n < MinNameLen THEN NoProduct
        ELSE IF price_el.st = "raise" THEN NoProduct
        ELSE IF price_el.st = "none" THEN NoProduct      \* if not price_el
        ELSE IF nums = << >> THEN NoProduct              \* if not nums
        ELSE IF OverBudget(ToInt(nums), price_max) THEN NoProduct
        ELSE Product(Cut(name_el.inner, NameCut), ToInt(nums), asin, "amazon")

\* FlipkartScraper._extract_with_id, the name strategies: the first selector
\* whose element has a stripped text, or else a title, longer than 5 wins; a
\* selector that raises is skipped.
NumNameSelectors == 9
NumPriceSelectors == 8

RECURSIVE FlipkartName(_, _)
FlipkartName(item, k) ==
    IF k > NumNameSelectors THEN NoneText
    ELSE LET el == Sel(item.names, k) IN
         IF el.st # "el" THEN FlipkartName(item, k + 1)
         ELSE IF Truthy(el.inner) /\ el.inner.n > MinNameLen THEN el.inner
         ELSE IF Truthy(el.title) /\ el.title.n > MinNameLen THEN el.title
         ELSE FlipkartName(item, k + 1)

\* the price strategies: the first selector whose text holds a digit run
\* wins; None is -1
RECURSIVE FlipkartSelectorPrice(_, _)
FlipkartSelectorPrice(item, k) ==
    IF k > NumPriceSelectors THEN -1
    ELSE LET el == Sel(item.prices, k)
             nums == FirstDigitRun(FlipkartPriceClean(el.text))
         IN  IF el.st = "el" /\ nums # << >> THEN ToInt(nums)
             ELSE FlipkartSelectorPrice(item, k + 1)

\* One of the patterns  lit \.? \s* (\d+,?\d*)  tried at position i of s:
\* the captured group, or << >> when the pattern does not match there.
PatternAt(s, i, lit, dot) ==
    LET j1 == i + Len(lit)
        j2 == IF dot /\ j1 <= Len(s) /\ s[j1] = "." THEN j1 + 1 ELSE j1
        j3 == RunEnd(s, j2, Whitespace)
        j4 == RunEnd(s, j3, Digits)
        j5 == IF j4 <= Len(s) /\ s[j4] = "," THEN j4 + 1 ELSE j4
        j6 == RunEnd(s, j5, Digits)
    IN  IF j1 - 1 <= Len(s) /\ SubSeq(s, i, j1 - 1) = lit /\ j4 > j3
        THEN SubSeq(s, j3, j6 - 1) ELSE << >>

\* re.findall(pattern, s)[0], or << >> when there is no match
RECURSIVE FirstMatch(_, _, _, _)
FirstMatch(s, i, lit, dot) ==
    IF i > Len(s) THEN << >>
    ELSE IF PatternAt(s, i, lit, dot) # << >> THEN PatternAt(s, i, lit, dot)
    ELSE FirstMatch(s, i + 1, lit, dot)

price_patterns == << [lit |-> <<Rupee>>, dot |-> FALSE],
                     [lit |-> <<"R", "s">>, dot |-> TRUE],
                     [lit |-> <<"I", "N", "R">>, dot |-> FALSE] >>

\* the scan of the whole item text, pattern after pattern; None is -1
RECURSIVE FlipkartPatternPrice(_, _)
FlipkartPatternPrice(item, k) ==
    IF k > Len(price_patterns) THEN -1
    ELSE LET m == FirstMatch(item.text, 1, price_patterns[k].lit, price_patterns[k].dot)
         IN  IF m # << >> THEN ToInt(Strip(m, {","}))
             ELSE FlipkartPatternPrice(item, k + 1)

\* FlipkartScraper._extract_with_id (the record's url is left out)
ExtractWithId(item, product_id, price_max) ==
    LET name == FlipkartName(item, 1)
        sel_price == FlipkartSelectorPrice(item, 1)
        pat_price == FlipkartPatternPrice(item, 1)
        \* "if not price_num": None and 0 both send it to the text scan,
        \* which leaves price_num as it was when nothing matches
        price_num == IF sel_price > 0 THEN sel_price
                     ELSE IF pat_price >= 0 THEN pat_price ELSE sel_price
    IN  IF ~Truthy(name) \/ name.n < MinNameLen THEN NoProduct
        ELSE IF price_num <= 0 THEN NoProduct            \* if not price_num
        ELSE IF OverBudget(price_num, price_max) THEN NoProduct
        ELSE Product(Cut(name, NameCut), price_num, product_id, "flipkart")

\* _fallback_products, the same in both services but for the urls
FallbackProducts(query, price_max, plat) ==
    LET base_price == Min(FallbackCap, PyInt(price_max.v * 6, 10)) IN
    << Product(Text("Best Value", query.n + 13), base_price, NoneText, plat),
       Product(Text("Top Rated", query.n + 12), PyInt(base_price * 12, 10), NoneText, plat) >>

----------------------------------------------------------------------------
\* search_products, lines 55-80: the loop over the first 12 items.

\* "asin and len(asin) == 10" / "product_id and len(product_id) > 3"
ValidId(id, plat) ==
    IF plat = "amazon" THEN Truthy(id) /\ id.n = AsinLen
    ELSE Truthy(id) /\ id.n > MinIdLen

Extract(item, price_max, plat) ==
    IF plat = "amazon" THEN ExtractWithAsin(item, item.id, price_max)
    ELSE ExtractWithId(item, item.id, price_max)

\* the for loop from item i on, with the products collected so far
RECURSIVE CollectNoBreak(_, _, _, _, _)
CollectNoBreak(items, i, products, price_max, plat) ==
    IF i > Len(items) THEN products
    ELSE LET product == Extract(items[i], price_max, plat) IN
         IF items[i].id # RaiseText /\ ValidId(items[i].id, plat) /\ product.ok
         THEN CollectNoBreak(items, i + 1, Append(products, product), price_max, plat)
         ELSE CollectNoBreak(items, i + 1, products, price_max, plat)
RECURSIVE Collect(_, _, _, _, _)
Collect(items, i, products, price_max, plat) ==
    IF i > Len(items) THEN products
    ELSE IF items[i].id = RaiseText                      \* except Exception: continue
    THEN Collect(items, i + 1, products, price_max, plat)
    ELSE IF ~ValidId(items[i].id, plat)
    THEN Collect(items, i + 1, products, price_max, plat)
    ELSE LET product == Extract(items[i], price_max, plat)
             products2 == IF product.ok THEN Append(products, product) ELSE products
         IN  IF Len(products2) >= MaxProducts THEN products2   \* break
             ELSE Collect(items, i + 1, products2, price_max, plat)

\* all_items[:12], then the loop
ScrapePage(all_items, price_max, plat) ==
    Collect(SubSeq(all_items, 1, Min(TopItems, Len(all_items))), 1, << >>, price_max, plat)

\* lines 95-101: the result dict
Result(query, price_max, products, now) ==
    [query |-> query, price_max |-> price_max, count |-> Len(products),
     products |-> SubSeq(products, 1, Min(MaxProducts, Len(products))), timestamp |-> now]

----------------------------------------------------------------------------
\* The pages a site may answer with.

Bat == Text("cricket bat", 11)

PriceText1999 == <<Rupee, "1", ",", "9", "9", "9">>
PriceText2000 == <<Rupee, "2", ",", "0", "0", "0">>
PriceText2001 == <<Rupee, " ", "2", "0", "0", "1">>

GoodId(plat) == IF plat = "amazon" THEN Text("B0CRICKET1", 10) ELSE Text("BATGXYZ123456789", 16)
GoodName == NameEl(Text("Kashmir Willow Cricket Bat", 26), NoneText)

Priced(plat, price_text) == Item(GoodId(plat), <<GoodName>>, <<PriceEl(price_text)>>, price_text)

NoIdItem(plat) == Item(NoneText, <<GoodName>>, <<PriceEl(PriceText1999)>>, PriceText1999)

ItemKinds(plat) ==
    { Priced(plat, PriceText1999), Priced(plat, PriceText2000), Priced(plat, PriceText2001),
      NoIdItem(plat),
      Item(GoodId(plat), <<RaiseEl>>, <<PriceEl(PriceText1999)>>, PriceText1999),
      Item(GoodId(plat), <<GoodName>>, << >>, << >>) }

\* n copies of x
RECURSIVE Rep(_, _)
Rep(x, n) == IF n = 0 THEN << >> ELSE <<x>> \o Rep(x, n - 1)

\* every page of at most one item, and longer pages: a run of items without
\* an id (none, or enough to push acceptable items past the first 12)
\* followed by a run of acceptable items (6, or all the rest of the page)
ShortPages(plat) == UNION {[1..n -> ItemKinds(plat)] : n \in 0..1}
LongPages(plat) ==
    { Rep(NoIdItem(plat), i) \o Rep(Priced(plat, PriceText1999), j) :
      i \in {0, MaxPageLen - MaxProducts}, j \in {MaxProducts, MaxPageLen} }
Pages(plat) == ShortPages(plat) \cup {p \in LongPages(plat) : Len(p) <= MaxPageLen}

----------------------------------------------------------------------------
\* Request bodies.
\*   shape   "malformed" (not JSON), "array" (JSON, but not an object), "object"
\*   method  the value of "method" ("none" when the key is absent)
\*   params  "absent", "string" (a non-empty JSON string) or "dict"
\*   name    params.name ("" when absent)
\*   args    params.arguments: st "absent" or "dict", the query and price_max
\*   has_id, id   the "id" key

NoArgs == [st |-> "absent", has_query |-> FALSE, query |-> NoneText,
           has_price |-> FALSE, price_max |-> Num("int", 0)]
Args(has_query, has_price, price_max) ==
    [st |-> "dict", has_query |-> has_query, query |-> IF has_query THEN Bat ELSE NoneText,
     has_price |-> has_price, price_max |-> price_max]

Body(shape, method, params, name, args, has_id, id) ==
    [shape |-> shape, method |-> method, params |-> params, name |-> name,
     args |-> args, has_id |-> has_id, id |-> id]

NoBody == Body("none", "none", "absent", "", NoArgs, FALSE, 0)

PriceArgs == { Num("int", -1), Num("int", 2000), Num("str", 2000) }

SearchBodies ==
    { Body("object", "tools/call", "dict", "search_products", Args(TRUE, TRUE, p), TRUE, 7) : p \in PriceArgs }
    \cup { Body("object", "tools/call", "dict", "search_products", Args(TRUE, FALSE, Num("int", 0)), TRUE, 7) }

OtherBodies ==
    { Body("malformed", "none", "absent", "", NoArgs, FALSE, 0),
      Body("array", "none", "absent", "", NoArgs, FALSE, 0),
      Body("object", "tools/call", "string", "", NoArgs, TRUE, 7),
      Body("object", "initialize", "absent", "", NoArgs, TRUE, 7),
      Body("object", "initialize", "absent", "", NoArgs, FALSE, 0),
      Body("object", "tools/list", "absent", "", NoArgs, TRUE, 7),
      Body("object", "resources/list", "absent", "", NoArgs, TRUE, 7),
      Body("object", "none", "absent", "", NoArgs, TRUE, 7),
      Body("object", "tools/call", "dict", "buy_product", Args(TRUE, FALSE, Num("int", 0)), TRUE, 7),
      Body("object", "tools/call", "dict", "search_products", NoArgs, TRUE, 7),
      Body("object", "tools/call", "dict", "search_products", Args(FALSE, TRUE, Num("int", 2000)), TRUE, 7) }

Bodies == SearchBodies \cup OtherBodies

\* Response envelopes.  has_result / has_error say which keys the dict has.
NoValue == [kind |-> "none"]
Envelope(id, has_result, result, has_error, error) ==
    [id |-> id, has_result |-> has_result, result |-> result,
     has_error |-> has_error, error |-> error]
NoEnvelope == [id |-> 0, has_result |-> FALSE, result |-> NoValue, has_error |-> FALSE, error |-> NoValue]

\* line 210 and line 214
BothEnvelope(id, resp) == Envelope(id, TRUE, resp, TRUE, resp)
ResultEnvelope(id, resp) == Envelope(id, TRUE, resp, FALSE, NoValue)
ErrorEnvelope(id, message) ==
    Envelope(id, FALSE, NoValue, TRUE, [kind |-> "error", code |-> InternalError, message |-> message])

\* lines 198-203 and 207-208: the results that need no search
Capabilities == [kind |-> "capabilities", protocolVersion |-> "2024-11-05", tools |-> TRUE]
ToolList == [kind |-> "tools", names |-> <<"search_products">>, required |-> <<"query">>]
Unknown(method, tool_name) == [kind |-> "unknown", error |-> <<"Unknown", method, tool_name>>]

\* line 193: tool_name
ToolName(b) == IF b.params = "dict" THEN b.name ELSE ""
\* line 194: id_ = data.get("id", 1)
IdOf(b) == IF b.has_id THEN b.id ELSE DefaultId

\* lines 190-194 raise: the body is not JSON, is not an object, or params
\* is a non-empty value without .get
ParseRaises(b) == b.shape # "object" \/ b.params = "string"

IsSearchCall(b) == b.method = "tools/call" /\ ToolName(b) = "search_products"

\* lines 205-206 raise before search_products runs: KeyError 'arguments',
\* or TypeError for the missing positional argument query
ArgsRaise(b) == b.args.st = "absent" \/ ~b.args.has_query

\* the price_max search_products runs with: the argument, or the default 40000.0
PriceMaxOf(b) == IF b.args.has_price THEN b.args.price_max ELSE Num("float", DefaultPriceMax)

\* searches whose ceilings are equal as numbers and differ as JSON values,
\* or as given and left out
KeyArgs == { Num("int", 2000), Num("float", 2000), Num("int", DefaultPriceMax) }
KeyBodies ==
    { Body("object", "tools/call", "dict", "search_products", Args(TRUE, TRUE, p), TRUE, 7) : p \in KeyArgs }
    \cup { Body("object", "tools/call", "dict", "search_products", Args(TRUE, FALSE, Num("int", 0)), TRUE, 7) }

PriceMaxes == {PriceMaxOf(b) : b \in SearchBodies \cup KeyBodies}

\* ScrapePage over the pages and ceilings of the model, computed once
Scraped ==
    [plat \in {"amazon", "flipkart"} |->
        [price_max \in PriceMaxes |->
            [all_items \in Pages(plat) |-> ScrapePage(all_items, price_max, plat)]]]

----------------------------------------------------------------------------
\* State.

\* locals of one search_products call, and what it has done so far
\*   products       the list being built
\*   driver         playwright_context: "none", "running", "stopped"
\*   browser        "none", "open", "closed"
\*   path           how the call ended: "hit", "scraped", "fallback", "raised"
\*   stale          timestamp of the expired entry the check found, else -1
NoLoc == [products |-> << >>, driver |-> "none", browser |-> "none", path |-> "none",
          stale |-> -1]

\* the candidate loop of one call, when it is followed item by item
\*   all_items      what query_selector_all returned
\*   items          all_items[:12], once sliced
\*   i              enumerate's index of the next item, counted from 1
\*   products       the list being built
\*   st             "none", "page" (before line 57), "loop", "done" (at line 82)
NoScan == [all_items |-> << >>, items |-> << >>, price_max |-> Num("int", 0), i |-> 0,
           products |-> << >>, st |-> "none"]

Init ==
    /\ platform \in {"amazon", "flipkart"}
    /\ clock = 0
    /\ session_cache = << >>
    /\ pc = [t \in Tasks |-> "idle"]
    /\ req = [t \in Tasks |-> NoBody]
    /\ loc = [t \in Tasks |-> NoLoc]
    /\ response = [t \in Tasks |-> NoEnvelope]
    /\ events = [t \in Tasks |-> 0]
    /\ raised = [t \in Tasks |-> "none"]
    /\ scan = NoScan

\* self.session_cache[cache_key] = result
PutIfAbsent(cache, key, result) ==
    [k \in DOMAIN cache \cup {key} |-> IF k \in DOMAIN cache THEN cache[k] ELSE result]
Put(cache, key, result) ==
    [k \in DOMAIN cache \cup {key} |-> IF k = key THEN result ELSE cache[k]]

\* a cached value that is a dict (None and the like have a "kind")
IsDict(cached) == "kind" \notin DOMAIN cached
\* cached.get('timestamp', 0)
Timestamp(cached) == IF "timestamp" \in DOMAIN cached THEN cached.timestamp ELSE 0

\* lines 28-29 raise: the entry has no .get (AttributeError), or it is
\* young enough and the log line reads cached['count'], which is missing
\* (KeyError).  Neither is inside the try of line 36.
LookupRaises(cache, key, now) ==
    /\ key \in DOMAIN cache
    /\ IF ~IsDict(cache[key]) THEN TRUE
       ELSE now - Timestamp(cache[key]) < cache_timeout /\ "count" \notin DOMAIN cache[key]

\* lines 26-30: the cache check that ends in "return cached"
EarlyExpiry(cache, key, now) ==
    /\ key \in DOMAIN cache /\ ~LookupRaises(cache, key, now)
    /\ now - Timestamp(cache[key]) < cache_timeout - 1
LateExpiry(cache, key, now) ==
    /\ key \in DOMAIN cache /\ ~LookupRaises(cache, key, now)
    /\ now - Timestamp(cache[key]) <= cache_timeout
CacheHit(cache, key, now) ==
    /\ key \in DOMAIN cache /\ ~LookupRaises(cache, key, now)
    /\ now - Timestamp(cache[key]) < cache_timeout

\* requests are taken up in the order of their task numbers
Fresh(t) == pc[t] = "idle" /\ (IF t = 1 THEN TRUE ELSE pc[t - 1] # "idle")

\* mcp_handler returns: the envelope goes out as the one event of stream()
Respond(t, envelope) ==
    /\ response' = [response EXCEPT ![t] = envelope]
    /\ events' = [events EXCEPT ![t] = @ + 1]
    /\ pc' = [pc EXCEPT ![t] = "done"]

----------------------------------------------------------------------------
\* mcp_handler up to its first suspension inside search_products.

\* Lines 190-193 raise.  The handler at line 212 then reads id_, which was
\* never bound: UnboundLocalError leaves mcp_handler, nothing is streamed.
ParseFail(t, b) ==
    /\ Fresh(t) /\ ParseRaises(b)
    /\ req' = [req EXCEPT ![t] = b]
    /\ raised' = [raised EXCEPT ![t] = "UnboundLocalError"]
    /\ pc' = [pc EXCEPT ![t] = "done"]
    /\ UNCHANGED <<platform, scan, clock, session_cache, loc, response, events>>

\* initialize, tools/list and the else branch: resp goes out as "result"
StaticEvicts(t, b) ==
    /\ Fresh(t) /\ ~ParseRaises(b) /\ ~IsSearchCall(b)
    /\ req' = [req EXCEPT ![t] = b]
    /\ Respond(t, ResultEnvelope(IdOf(b),
            IF b.method = "initialize" THEN Capabilities
            ELSE IF b.method = "tools/list" THEN ToolList
            ELSE Unknown(b.method, ToolName(b))))
    /\ session_cache' = << >>
    /\ UNCHANGED <<platform, scan, clock, loc, raised>>
Static(t, b) ==
    /\ Fresh(t) /\ ~ParseRaises(b) /\ ~IsSearchCall(b)
    /\ req' = [req EXCEPT ![t] = b]
    /\ Respond(t, ResultEnvelope(IdOf(b),
            IF b.method = "initialize" THEN Capabilities
            ELSE IF b.method = "tools/list" THEN ToolList
            ELSE Unknown(b.method, ToolName(b))))
    /\ UNCHANGED <<platform, scan, clock, session_cache, loc, raised>>

\* tools/call search_products whose arguments are missing or lack query
BadArgs(t, b) ==
    /\ Fresh(t) /\ ~ParseRaises(b) /\ IsSearchCall(b) /\ ArgsRaise(b)
    /\ req' = [req EXCEPT ![t] = b]
    /\ Respond(t, ErrorEnvelope(IdOf(b), IF b.args.st = "absent" THEN "KeyError" ELSE "TypeError"))
    /\ UNCHANGED <<platform, scan, clock, session_cache, loc, raised>>

\* search_products finds a live cache entry and returns it
SearchHit(t, b) ==
    /\ Fresh(t) /\ ~ParseRaises(b) /\ IsSearchCall(b) /\ ~ArgsRaise(b)
    /\ LET key == CacheKey(b.args.query, PriceMaxOf(b)) IN
        /\ CacheHit(session_cache, key, clock)
        /\ Respond(t, ResultEnvelope(IdOf(b), session_cache[key]))
    /\ req' = [req EXCEPT ![t] = b]
    /\ loc' = [loc EXCEPT ![t].path = "hit"]
    /\ UNCHANGED <<platform, scan, clock, session_cache, raised>>

\* search_products finds no live entry and suspends in async_playwright().start()
SearchMiss(t, b) ==
    /\ Fresh(t) /\ ~ParseRaises(b) /\ IsSearchCall(b) /\ ~ArgsRaise(b)
    /\ LET key == CacheKey(b.args.query, PriceMaxOf(b)) IN
        /\ ~CacheHit(session_cache, key, clock)
        /\ ~LookupRaises(session_cache, key, clock)
        /\ loc' = [loc EXCEPT ![t].stale = IF key \in DOMAIN session_cache
                                        THEN Timestamp(session_cache[key]) ELSE -1]
    /\ req' = [req EXCEPT ![t] = b]
    /\ pc' = [pc EXCEPT ![t] = "start"]
    /\ UNCHANGED <<platform, scan, clock, session_cache, response, events, raised>>

\* the cache check itself raises: the exception leaves search_products and
\* is answered by the handler's except branch (line 212)
SearchRaises(t, b) ==
    /\ Fresh(t) /\ ~ParseRaises(b) /\ IsSearchCall(b) /\ ~ArgsRaise(b)
    /\ LET key == CacheKey(b.args.query, PriceMaxOf(b)) IN
        /\ LookupRaises(session_cache, key, clock)
        /\ Respond(t, ErrorEnvelope(IdOf(b), IF IsDict(session_cache[key])
                                             THEN "KeyError" ELSE "AttributeError"))
    /\ req' = [req EXCEPT ![t] = b]
    /\ loc' = [loc EXCEPT ![t].path = "raised"]
    /\ UNCHANGED <<platform, scan, clock, session_cache, raised>>

----------------------------------------------------------------------------
\* search_products after the cache miss, one action per suspension point.

Query(t) == req[t].args.query
PriceMax(t) == PriceMaxOf(req[t])

\* Lines 94-105, then lines 210-219 of the handler: the result is built,
\* stored and sent.  No suspension point lies between them.
Finish(t, products, path, driver, browser) ==
    LET result == Result(Query(t), PriceMax(t), products, clock) IN
    /\ session_cache' = Put(session_cache, CacheKey(Query(t), PriceMax(t)), result)
    /\ loc' = [loc EXCEPT ![t].products = products, ![t].path = path,
                          ![t].driver = driver, ![t].browser = browser]
    /\ Respond(t, ResultEnvelope(IdOf(req[t]), result))
    /\ UNCHANGED <<platform, scan, clock, req, raised>>

\* Lines 85-92, past the second stop(): products = _fallback_products(...).
\* With a price_max that is no number, price_max * 0.6 raises TypeError,
\* which leaves search_products and is caught at line 212 of the handler.
Fallback(t, driver, browser) ==
    IF IsNumber(PriceMax(t))
    THEN Finish(t, FallbackProducts(Query(t), PriceMax(t), platform), "fallback", driver, browser)
    ELSE /\ loc' = [loc EXCEPT ![t].path = "raised", ![t].driver = driver, ![t].browser = browser]
         /\ Respond(t, ErrorEnvelope(IdOf(req[t]), "TypeError"))
         /\ UNCHANGED <<platform, scan, clock, session_cache, req, raised>>

\* an awaited browser call raises inside the try: the task goes to the
\* except branch, where it suspends in playwright_context.stop()
Raise(t) ==
    /\ pc' = [pc EXCEPT ![t] = "recover"]
    /\ UNCHANGED <<platform, scan, clock, session_cache, req, loc, response, events, raised>>

\* line 37: async_playwright().start()
StartDriver(t) ==
    /\ pc[t] = "start"
    /\ pc' = [pc EXCEPT ![t] = "launch"]
    /\ loc' = [loc EXCEPT ![t].driver = "running"]
    /\ UNCHANGED <<platform, scan, clock, session_cache, req, response, events, raised>>

\* line 37 raises: playwright_context is still None, no stop() is awaited
StartDriverFails(t) ==
    /\ pc[t] = "start"
    /\ Fallback(t, "none", "none")

\* lines 38-48: launch, new_context, new_page, route
Launch(t) ==
    /\ pc[t] = "launch"
    /\ pc' = [pc EXCEPT ![t] = "goto"]
    /\ loc' = [loc EXCEPT ![t].browser = "open"]
    /\ UNCHANGED <<platform, scan, clock, session_cache, req, response, events, raised>>

LaunchFails(t) ==
    /\ pc[t] = "launch"
    /\ Raise(t)

\* lines 51-53: goto and the settle wait
Goto(t) ==
    /\ pc[t] = "goto"
    /\ pc' = [pc EXCEPT ![t] = "query"]
    /\ UNCHANGED <<platform, scan, clock, session_cache, req, loc, response, events, raised>>

GotoFails(t) ==
    /\ pc[t] = "goto"
    /\ Raise(t)

\* lines 56-80: query_selector_all and the loop over the items.  The loop
\* suspends at each element query, but touches nothing another task sees.
Enumerate(t, all_items) ==
    /\ pc[t] = "query"
    /\ pc' = [pc EXCEPT ![t] = "close"]
    /\ loc' = [loc EXCEPT ![t].products = Scraped[platform][PriceMax(t)][all_items]]
    /\ UNCHANGED <<platform, scan, clock, session_cache, req, response, events, raised>>

EnumerateFails(t) ==
    /\ pc[t] = "query"
    /\ Raise(t)

\* line 82: browser.close()
Close(t) ==
    /\ pc[t] = "close"
    /\ pc' = [pc EXCEPT ![t] = "stop"]
    /\ loc' = [loc EXCEPT ![t].browser = "closed"]
    /\ UNCHANGED <<platform, scan, clock, session_cache, req, response, events, raised>>

CloseFails(t) ==
    /\ pc[t] = "close"
    /\ Raise(t)

\* line 83: playwright_context.stop(), then the result
Stop(t) ==
    /\ pc[t] = "stop"
    /\ Finish(t, loc[t].products, "scraped", "stopped", loc[t].browser)

StopFails(t) ==
    /\ pc[t] = "stop"
    /\ Raise(t)

\* lines 87-92: stop() in the except branch (it ends the driver and with it
\* the browser), then the fallback products
Recover(t) ==
    /\ pc[t] = "recover"
    /\ Fallback(t, "stopped", IF loc[t].browser = "open" THEN "closed" ELSE loc[t].browser)

\* stop() raises in the except branch: swallowed by the bare except
RecoverStopFails(t) ==
    /\ pc[t] = "recover"
    /\ Fallback(t, loc[t].driver, loc[t].browser)

\* time passes
Tick(d) ==
    /\ clock + d <= MaxTime
    /\ clock' = clock + d
    /\ UNCHANGED <<platform, scan, session_cache, pc, req, loc, response, events, raised>>

Next ==
    \/ \E t \in Tasks, b \in Bodies :
        \/ ParseFail(t, b)
        \/ Static(t, b)
        \/ BadArgs(t, b)
        \/ SearchHit(t, b)
        \/ SearchMiss(t, b)
    \/ \E t \in Tasks :
        \/ StartDriver(t) \/ StartDriverFails(t)
        \/ Launch(t) \/ LaunchFails(t)
        \/ Goto(t) \/ GotoFails(t)
        \/ EnumerateFails(t)
        \/ Close(t) \/ CloseFails(t)
        \/ Stop(t) \/ StopFails(t)
        \/ Recover(t) \/ RecoverStopFails(t)
    \/ \E t \in Tasks : \E all_items \in Pages(platform) : Enumerate(t, all_items)
    \/ \E d \in TickSteps : Tick(d)

Spec == Init /\ [][Next]_vars

\* The event loop resumes a coroutine once the call it awaits has completed
\* or raised, and each browser call does one or the other within its
\* timeout: a task that stands at an await is not left there for ever.
Resume(t) ==
    \/ StartDriver(t) \/ StartDriverFails(t)
    \/ Launch(t) \/ LaunchFails(t)
    \/ Goto(t) \/ GotoFails(t)
    \/ EnumerateFails(t)
    \/ Close(t) \/ CloseFails(t)
    \/ Stop(t) \/ StopFails(t)
    \/ Recover(t) \/ RecoverStopFails(t)
    \/ \E all_items \in Pages(platform) : Enumerate(t, all_items)

SpecFair == Spec /\ \A t \in Tasks : WF_vars(Resume(t))

----------------------------------------------------------------------------
\* The service with a cache that something other than line 102 has written
\* to: scraper is a module-level object and session_cache a plain public
\* dict.  Entries for the key "cricket bat:2000" that are no complete result.

DamagedEntries ==
    { [query |-> Bat, price_max |-> Num("int", 2000), count |-> 0, products |-> << >>],
      [query |-> Bat, price_max |-> Num("int", 2000), products |-> << >>, timestamp |-> 0],
      [query |-> Bat, price_max |-> Num("int", 2000), count |-> 0, timestamp |-> 0],
      NoValue }

InitDamaged ==
    /\ platform \in {"amazon", "flipkart"}
    /\ clock = 0
    /\ session_cache \in [{CacheKey(Bat, Num("int", 2000))} -> DamagedEntries]
    /\ pc = [t \in Tasks |-> "idle"]
    /\ req = [t \in Tasks |-> NoBody]
    /\ loc = [t \in Tasks |-> NoLoc]
    /\ response = [t \in Tasks |-> NoEnvelope]
    /\ events = [t \in Tasks |-> 0]
    /\ raised = [t \in Tasks |-> "none"]
    /\ scan = NoScan

\* tools/call search_products requests only
NextDamaged ==
    \/ \E t \in Tasks, b \in SearchBodies :
        \/ SearchHit(t, b)
        \/ SearchMiss(t, b)
        \/ SearchRaises(t, b)
    \/ \E t \in Tasks :
        \/ StartDriver(t) \/ StartDriverFails(t)
        \/ Launch(t) \/ LaunchFails(t)
        \/ Goto(t) \/ GotoFails(t)
        \/ EnumerateFails(t)
        \/ Close(t) \/ CloseFails(t)
        \/ Stop(t) \/ StopFails(t)
        \/ Recover(t) \/ RecoverStopFails(t)
    \/ \E t \in Tasks : \E all_items \in Pages(platform) : Enumerate(t, all_items)
    \/ \E d \in TickSteps : Tick(d)

SpecDamaged == InitDamaged /\ [][NextDamaged]_vars

----------------------------------------------------------------------------
\* The service under searches for one query whose ceilings are 2000, 2000.0,
\* 40000 and none.

NextKey ==
    \/ \E t \in Tasks, b \in KeyBodies :
        \/ SearchHit(t, b)
        \/ SearchMiss(t, b)
    \/ \E t \in Tasks :
        \/ StartDriver(t) \/ StartDriverFails(t)
        \/ Launch(t) \/ LaunchFails(t)
        \/ Goto(t) \/ GotoFails(t)
        \/ EnumerateFails(t)
        \/ Close(t) \/ CloseFails(t)
        \/ Stop(t) \/ StopFails(t)
        \/ Recover(t) \/ RecoverStopFails(t)
    \/ \E t \in Tasks : \E all_items \in Pages(platform) : Enumerate(t, all_items)
    \/ \E d \in TickSteps : Tick(d)

SpecKey == Init /\ [][NextKey]_vars

----------------------------------------------------------------------------
\* The candidate loop of search_products (lines 56-80) taken item by item,
\* on its own and on a wider choice of pages.

\* an item whose get_attribute raises
RaisingItem(plat) == Item(RaiseText, <<GoodName>>, <<PriceEl(PriceText1999)>>, PriceText1999)
ScanKinds(plat) == ItemKinds(plat) \cup {RaisingItem(plat)}

\* every page of up to MaxMixLen items
MixedPages(plat) == UNION {[1..n -> ScanKinds(plat)] : n \in 0..MaxMixLen}
\* the page of n items that repeats the items of m over and over
Cycle(m, n) == [k \in 1..n |-> m[((k - 1) % Len(m)) + 1]]
CyclePages(plat) ==
    {Cycle(m, MaxPageLen) : m \in UNION {[1..n -> ScanKinds(plat)] : n \in 1..2}}
ScanPages(plat) == Pages(plat) \cup MixedPages(plat) \cup CyclePages(plat)

\* line 57: items = all_items[:12]
WholePage(all_items) == all_items
TopOf(all_items) == SubSeq(all_items, 1, Min(TopItems, Len(all_items)))

\* lines 62-80, one pass of the loop body: the products afterwards
LoopBody(item, products, price_max, plat) ==
    IF item.id = RaiseText THEN products                 \* except Exception: continue
    ELSE IF ~ValidId(item.id, plat) THEN products
    ELSE LET product == Extract(item, price_max, plat) IN
         IF product.ok THEN Append(products, product) ELSE products
\* line 73 is reached and the loop left
Breaks(item, products, plat) ==
    item.id # RaiseText /\ ValidId(item.id, plat) /\ Len(products) >= MaxProducts

\* the call state of a loop that is about to slice all_items
StartScan(all_items, price_max) ==
    [NoScan EXCEPT !.all_items = all_items, !.price_max = price_max, !.st = "page"]

InitScan ==
    /\ platform \in {"amazon", "flipkart"}
    /\ clock = 0
    /\ session_cache = << >>
    /\ pc = [t \in Tasks |-> "idle"]
    /\ req = [t \in Tasks |-> NoBody]
    /\ loc = [t \in Tasks |-> NoLoc]
    /\ response = [t \in Tasks |-> NoEnvelope]
    /\ events = [t \in Tasks |-> 0]
    /\ raised = [t \in Tasks |-> "none"]
    /\ scan \in {StartScan(p, m) : p \in ScanPages(platform), m \in PriceMaxes}

\* line 57
Slice ==
    /\ scan.st = "page"
    /\ scan' = [scan EXCEPT !.items = TopOf(scan.all_items), !.i = 1, !.st = "loop"]
    /\ UNCHANGED <<platform, clock, session_cache, pc, req, loc, response, events, raised>>

\* lines 61-80: the next item of the for loop
ExamineAborts ==
    /\ scan.st = "loop" /\ scan.i <= Len(scan.items)
    /\ LET item == scan.items[scan.i]
           products == LoopBody(item, scan.products, scan.price_max, platform)
       IN  scan' = [scan EXCEPT !.products = products, !.i = @ + 1,
                                !.st = IF products = scan.products \/ Breaks(item, products, platform)
                                       THEN "done" ELSE "loop"]
    /\ UNCHANGED <<platform, clock, session_cache, pc, req, loc, response, events, raised>>
Examine ==
    /\ scan.st = "loop" /\ scan.i <= Len(scan.items)
    /\ LET item == scan.items[scan.i]
           products == LoopBody(item, scan.products, scan.price_max, platform)
       IN  scan' = [scan EXCEPT !.products = products, !.i = @ + 1,
                                !.st = IF Breaks(item, products, platform)
                                       THEN "done" ELSE "loop"]
    /\ UNCHANGED <<platform, clock, session_cache, pc, req, loc, response, events, raised>>

\* the for loop runs out of items
LoopEnds ==
    /\ scan.st = "loop" /\ scan.i > Len(scan.items)
    /\ scan' = [scan EXCEPT !.st = "done"]
    /\ UNCHANGED <<platform, clock, session_cache, pc, req, loc, response, events, raised>>

NextScan == Slice \/ Examine \/ LoopEnds

SpecScan == InitScan /\ [][NextScan]_vars

----------------------------------------------------------------------------
\* FlipkartScraper._extract_with_id on single items whose name and price
\* selectors answer in every combination.

ShortName == Text("Bat", 3)
OtherName == Text("English Willow Bat", 18)
NameEls ==
    { NoEl, RaiseEl, NameEl(ShortName, NoneText), NameEl(ShortName, OtherName),
      NameEl(OtherName, NoneText), GoodName }
PriceText0 == <<Rupee, "0">>
PriceTextNone == <<"N", "/", "A">>
PriceEls ==
    { NoEl, RaiseEl, PriceEl(PriceTextNone), PriceEl(PriceText0), PriceEl(PriceText1999) }

\* item.inner_text(): the texts of the price elements one after the other
RECURSIVE TextOf(_)
TextOf(els) == IF els = << >> THEN << >> ELSE Head(els).text \o <<" ">> \o TextOf(Tail(els))

\* the item's text may show a price before those the selectors find
LeadingTexts == { << >>, PriceText2000 \o <<" ">> }

ChainItems ==
    { Item(GoodId("flipkart"), names, prices, lead \o TextOf(prices)) :
        names \in UNION {[1..n -> NameEls] : n \in 0..MaxSelectors},
        prices \in UNION {[1..n -> PriceEls] : n \in 0..MaxSelectors},
        lead \in LeadingTexts }

InitChain ==
    /\ platform = "flipkart"
    /\ clock = 0
    /\ session_cache = << >>
    /\ pc = [t \in Tasks |-> "idle"]
    /\ req = [t \in Tasks |-> NoBody]
    /\ loc = [t \in Tasks |-> NoLoc]
    /\ response = [t \in Tasks |-> NoEnvelope]
    /\ events = [t \in Tasks |-> 0]
    /\ raised = [t \in Tasks |-> "none"]
    /\ scan \in {StartScan(<<item>>, Num("int", 2000)) : item \in ChainItems}

SpecChain == InitChain /\ [][NextScan]_vars

----------------------------------------------------------------------------
\* Both _extract_* functions on single items whose name element has a
\* stripped text, or a short text and a title, of every length up to
\* MaxNameLen.

NameItems(plat) ==
    { Item(GoodId(plat), <<NameEl(Text("text", n), NoneText)>>,
           <<PriceEl(PriceText1999)>>, PriceText1999) : n \in 0..MaxNameLen }
    \cup
    { Item(GoodId(plat), <<NameEl(ShortName, Text("title", n))>>,
           <<PriceEl(PriceText1999)>>, PriceText1999) : n \in 0..MaxNameLen }

InitName ==
    /\ platform \in {"amazon", "flipkart"}
    /\ clock = 0
    /\ session_cache = << >>
    /\ pc = [t \in Tasks |-> "idle"]
    /\ req = [t \in Tasks |-> NoBody]
    /\ loc = [t \in Tasks |-> NoLoc]
    /\ response = [t \in Tasks |-> NoEnvelope]
    /\ events = [t \in Tasks |-> 0]
    /\ raised = [t \in Tasks |-> "none"]
    /\ scan \in {StartScan(<<item>>, Num("int", 2000)) : item \in NameItems(platform)}

SpecName == InitName /\ [][NextScan]_vars

----------------------------------------------------------------------------
\* Both _extract_* functions on single items whose price element has every
\* stripped text of up to MaxPriceLen characters over PriceChars; the item's
\* whole text is the price text.

PriceChars == {Rupee, "1", "5", ",", ".", " "}

\* what str.strip() can return: no whitespace at either end
PriceTexts ==
    { s \in UNION {[1..n -> PriceChars] : n \in 0..MaxPriceLen} :
        s = << >> \/ (s[1] \notin Whitespace /\ s[Len(s)] \notin Whitespace) }

InitPrice ==
    /\ platform \in {"amazon", "flipkart"}
    /\ clock = 0
    /\ session_cache = << >>
    /\ pc = [t \in Tasks |-> "idle"]
    /\ req = [t \in Tasks |-> NoBody]
    /\ loc = [t \in Tasks |-> NoLoc]
    /\ response = [t \in Tasks |-> NoEnvelope]
    /\ events = [t \in Tasks |-> 0]
    /\ raised = [t \in Tasks |-> "none"]
    /\ scan \in {StartScan(<<Priced(platform, text)>>, Num("int", 2000)) : text \in PriceTexts}

SpecPrice == InitPrice /\ [][NextScan]_vars

----------------------------------------------------------------------------
\* FlipkartScraper._extract_with_id, lines 221-260: the url of the record,
\* for an item that has passed the name and price checks.  A url is a
\* sequence of pieces, each a run of characters the code never looks into;
\* in this spec scan holds the item's links, the position in the loop over
\* them, product_url and the record.

Base == "https://www.flipkart.com"
PathMarker == "/p/"
IdParam == "pid="
SearchPath == "/search"
NoUrl == << >>                                   \* None

\* 'x in href'
Contains(url, piece) == \E k \in 1..Len(url) : url[k] = piece
\* href.startswith('http'), href.startswith('/')
StartsWithHttp(href) == href # << >> /\ href[1] = Base
StartsWithSlash(href) == href # << >> /\ href[1] \in {"/bat", PathMarker, SearchPath}
\* href.split('?')[0]
RECURSIVE BeforeQuery(_)
BeforeQuery(href) ==
    IF href = << >> \/ Head(href) = "?" THEN << >>
    ELSE <<Head(href)>> \o BeforeQuery(Tail(href))
\* query.replace(' ', '%20')
RECURSIVE Escaped(_)
Escaped(query) ==
    IF query = << >> THEN << >>
    ELSE <<IF Head(query) = " " THEN "%20" ELSE Head(query)>> \o Escaped(Tail(query))

QueryWords == <<"cricket", " ", "bat">>
\* line 249: the search url carrying the data-id
SearchUrl(query, product_id) ==
    <<Base, SearchPath, "?", "q=">> \o Escaped(query) \o <<"&", IdParam, product_id.s>>

\* The hrefs of the page: an origin or none or a relative start, a path, and
\* no query or one with the item id, another parameter, or both.
Hrefs ==
    { h \o p \o q :
        h \in { <<Base>>, << >>, <<"bat">> },
        p \in { <<"/bat">>, <<"/bat", PathMarker, "itm1">>, <<SearchPath>> },
        q \in { << >>, <<"?", IdParam, "BAT1">>, <<"?", "lid=", "L1">>,
                <<"?", IdParam, "BAT1", "&", "lid=", "L1">>,
                <<"?", "lid=", "L1", "&", IdParam, "BAT1">> } }

\* the <a> elements: a href attribute, no href attribute (st "none"), or a
\* read that raises (st "raise")
Links ==
    { [st |-> "href", href |-> h] : h \in Hrefs }
    \cup { [st |-> "none", href |-> NoUrl], [st |-> "raise", href |-> NoUrl] }

InitUrl ==
    /\ platform = "flipkart"
    /\ clock = 0
    /\ session_cache = << >>
    /\ pc = [t \in Tasks |-> "idle"]
    /\ req = [t \in Tasks |-> NoBody]
    /\ loc = [t \in Tasks |-> NoLoc]
    /\ response = [t \in Tasks |-> NoEnvelope]
    /\ events = [t \in Tasks |-> 0]
    /\ raised = [t \in Tasks |-> "none"]
    /\ scan \in {[all_links |-> links, i |-> 1, product_url |-> NoUrl, url |-> NoUrl,
                  product_id |-> GoodId("flipkart"), st |-> "links"] :
                    links \in UNION {[1..n -> Links] : n \in 0..MaxLinks}}

\* lines 229-237: what one link makes of product_url
LinkUrl(link, product_url) ==
    IF link.st # "href" \/ link.href = << >> THEN product_url             \* if href
    ELSE IF ~(Contains(link.href, PathMarker) \/ Contains(link.href, IdParam)) THEN product_url
    ELSE IF StartsWithHttp(link.href) THEN BeforeQuery(link.href)
    ELSE IF StartsWithSlash(link.href) THEN <<Base>> \o BeforeQuery(link.href)
    ELSE product_url

\* lines 227-243: one pass of the loop over the links; a link whose read
\* raises is skipped, the first link that sets product_url ends the loop
NextLink ==
    /\ scan.st = "links"
    /\ scan.i <= Len(scan.all_links)
    /\ LET link == scan.all_links[scan.i]
           product_url == LinkUrl(link, scan.product_url)
       IN  scan' = [scan EXCEPT !.i = scan.i + 1, !.product_url = product_url,
                                !.st = IF link.st # "raise" /\ product_url # NoUrl
                                       THEN "validate" ELSE "links"]
    /\ UNCHANGED <<platform, clock, session_cache, pc, req, loc, response, events, raised>>

\* the loop runs out of links
LinksEnd ==
    /\ scan.st = "links"
    /\ scan.i > Len(scan.all_links)
    /\ scan' = [scan EXCEPT !.st = "validate"]
    /\ UNCHANGED <<platform, clock, session_cache, pc, req, loc, response, events, raised>>

\* lines 246-249: no url, or a search url, gives the search url with the id
Validate ==
    /\ scan.st = "validate"
    /\ scan' = [scan EXCEPT !.product_url =
                                IF scan.product_url = NoUrl \/ Contains(scan.product_url, SearchPath)
                                THEN SearchUrl(QueryWords, scan.product_id)
                                ELSE scan.product_url,
                            !.st = "record"]
    /\ UNCHANGED <<platform, clock, session_cache, pc, req, loc, response, events, raised>>

\* lines 253-260: the record takes product_url as its url
Record ==
    /\ scan.st = "record"
    /\ scan' = [scan EXCEPT !.url = scan.product_url, !.st = "done"]
    /\ UNCHANGED <<platform, clock, session_cache, pc, req, loc, response, events, raised>>

NextUrl == NextLink \/ LinksEnd \/ Validate \/ Record

SpecUrl == InitUrl /\ [][NextUrl]_vars

----------------------------------------------------------------------------
\* _fallback_products on its own, for the query "cricket bat" and every
\* whole price_max, int or float, from -MaxCeiling to MaxCeiling.

InitFallback ==
    /\ platform \in {"amazon", "flipkart"}
    /\ clock = 0
    /\ session_cache = << >>
    /\ pc = [t \in Tasks |-> "idle"]
    /\ req = [t \in Tasks |-> NoBody]
    /\ loc = [t \in Tasks |-> NoLoc]
    /\ response = [t \in Tasks |-> NoEnvelope]
    /\ events = [t \in Tasks |-> 0]
    /\ raised = [t \in Tasks |-> "none"]
    /\ scan \in {[NoScan EXCEPT !.price_max = Num(t, v), !.st = "except"] :
                    t \in {"int", "float"}, v \in (0 - MaxCeiling)..MaxCeiling}

\* line 92: products = self._fallback_products(query, price_max)
Synthesize ==
    /\ scan.st = "except"
    /\ scan' = [scan EXCEPT !.products = FallbackProducts(Bat, scan.price_max, platform),
                            !.st = "done"]
    /\ UNCHANGED <<platform, clock, session_cache, pc, req, loc, response, events, raised>>

SpecFallback == InitFallback /\ [][Synthesize]_vars

----------------------------------------------------------------------------
\* What the properties below speak about.

Done(t) == pc[t] = "done"

\* task t ran search_products and got a result: from the cache, from the
\* page, or from _fallback_products
Searched(t) == Done(t) /\ loc[t].path \in {"hit", "scraped", "fallback"}
Fetched(t) == Done(t) /\ loc[t].path \in {"scraped", "fallback"}

KeyOf(b) == CacheKey(b.args.query, PriceMaxOf(b))

\* body b gets as far as the cache check of search_products
ReachesSearch(b) == ~ParseRaises(b) /\ IsSearchCall(b) /\ ~ArgsRaise(b)

WithinCeiling(products, price_max) ==
    \A i \in 1..Len(products) : products[i].price_num <= price_max.v

----------------------------------------------------------------------------
\* C1: every record of every result search_products returns, scraped or
\* served from the cache, has price_num <= the price_max of the request
\* that received it.
C1_PriceCeiling ==
    \A t \in Tasks :
        Searched(t) /\ IsNumber(PriceMax(t)) =>
            WithinCeiling(response[t].result.products, PriceMax(t))

\* C2: in every returned result and in every cache entry, count is the
\* length of products, and products has at most 6 entries.
C2_CountAndCap ==
    /\ \A t \in Tasks :
        Searched(t) =>
            /\ response[t].result.count = Len(response[t].result.products)
            /\ Len(response[t].result.products) <= MaxProducts
    /\ \A k \in DOMAIN session_cache :
        /\ session_cache[k].count = Len(session_cache[k].products)
        /\ Len(session_cache[k].products) <= MaxProducts

\* a call returned the 6 products it cut the page down to, and cached them
C2_Witness ==
    \E t \in Tasks :
        /\ Done(t) /\ loc[t].path = "scraped"
        /\ Len(response[t].result.products) = MaxProducts
        /\ session_cache[KeyOf(req[t])] = response[t].result

\* the cache check of a call, when it finds an entry younger than 300 seconds
C3_HitStep(t) ==
    LET b == req'[t]
        k == KeyOf(b)
    IN  /\ pc[t] = "idle" /\ pc'[t] # "idle" /\ ReachesSearch(b)
        /\ k \in DOMAIN session_cache
        /\ clock - session_cache[k].timestamp < cache_timeout
        => /\ pc'[t] = "done"
           /\ response'[t] = [id |-> IdOf(b), has_result |-> TRUE, result |-> session_cache[k],
                              has_error |-> FALSE, error |-> NoValue]
           /\ events'[t] = 1
           /\ loc'[t].driver = "none" /\ loc'[t].browser = "none"
           /\ session_cache' = session_cache
\* every cache entry is the result of a call that fetched it
C3_EntriesWereReturned ==
    \A k \in DOMAIN session_cache :
        \E t \in Tasks : Fetched(t) /\ KeyOf(req[t]) = k /\ response[t].result = session_cache[k]
\* C3: a search_products call that finds an entry for its (query, price_max)
\* younger than 300 seconds returns that very entry, timestamp included,
\* starts no driver and no browser, and leaves the cache as it is; and every
\* entry of the cache is the result some earlier call fetched and returned.
C3_HitWithinTtl == [](C3_EntriesWereReturned) /\ [][\A t \in Tasks : C3_HitStep(t)]_vars

\* the second of two calls got the first one's result, 299 seconds later
C3_Witness ==
    \E t1, t2 \in Tasks :
        /\ Fetched(t1) /\ Done(t2) /\ loc[t2].path = "hit"
        /\ KeyOf(req[t1]) = KeyOf(req[t2])
        /\ response[t2].result = response[t1].result
        /\ clock - response[t2].result.timestamp = cache_timeout - 1

\* the cache check of a call, when it finds an entry 300 seconds old or older
C4_ExpiredStep(t) ==
    LET b == req'[t]
        k == KeyOf(b)
    IN  /\ pc[t] = "idle" /\ pc'[t] # "idle" /\ ReachesSearch(b)
        /\ k \in DOMAIN session_cache
        /\ clock - session_cache[k].timestamp >= cache_timeout
        => /\ pc'[t] = "start"
           /\ events'[t] = 0
           /\ loc'[t].stale = session_cache[k].timestamp
\* the step in which a call stores and returns what it fetched
C4_StoreStep(t) ==
    /\ pc[t] # "done" /\ pc'[t] = "done"
    /\ loc'[t].path \in {"scraped", "fallback"}
    => /\ session_cache'[KeyOf(req[t])] = response'[t].result
       /\ response'[t].result.timestamp = clock
       /\ loc[t].stale >= 0 => response'[t].result.timestamp >= loc[t].stale + cache_timeout
\* C4: a call that finds an entry 300 seconds old or older takes it for
\* expired: it returns nothing from the cache and goes on to the browser
\* path; and a call that went that way ends by replacing the entry with its
\* own result, stamped with the current time, later than the expired stamp.
C4_RefetchWhenExpired == [][\A t \in Tasks : C4_ExpiredStep(t) /\ C4_StoreStep(t)]_vars

\* a call found an entry exactly 300 seconds old and has replaced it
C4_Witness ==
    \E t \in Tasks :
        /\ Fetched(t) /\ loc[t].stale >= 0
        /\ response[t].result.timestamp = loc[t].stale + cache_timeout
        /\ session_cache[KeyOf(req[t])] = response[t].result

\* C5: whenever the browser path of search_products raises, the call returns
\* a result with exactly 2 records, each with price_num <= price_max, and no
\* exception reaches the handler.
C5_FallbackOnRaise ==
    \A t \in Tasks :
        Done(t) /\ loc[t].path \in {"fallback", "raised"} =>
            /\ response[t].has_result
            /\ Len(response[t].result.products) = 2
            /\ WithinCeiling(response[t].result.products, PriceMax(t))

\* C6: a request that is neither initialize, tools/list nor tools/call of
\* search_products is answered with an error object of code -32601 and no
\* result.
C6_UnknownIsError ==
    \A t \in Tasks :
        /\ Done(t) /\ ~ParseRaises(req[t]) /\ ~IsSearchCall(req[t])
        /\ req[t].method \notin {"initialize", "tools/list"}
        => /\ response[t].has_error /\ ~response[t].has_result
           /\ response[t].error.code = -32601

\* C7: whatever the body, no exception leaves mcp_handler, and a body whose
\* handling raised is answered with error code -32603.
C7_AlwaysInternalError ==
    \A t \in Tasks :
        Done(t) =>
            /\ raised[t] = "none"
            /\ (ParseRaises(req[t]) \/ (IsSearchCall(req[t]) /\ ArgsRaise(req[t])))
               => response[t].has_error /\ response[t].error.code = InternalError

\* C8: every request gets an envelope whose id is the request's id, or the
\* placeholder id when the id was never read because parsing failed first.
C8_IdEchoed ==
    \A t \in Tasks :
        Done(t) =>
            /\ events[t] = 1
            /\ response[t].id = (IF ParseRaises(req[t]) THEN DefaultId ELSE IdOf(req[t]))

\* C9: every envelope mcp_handler produces has exactly one of result and
\* error.
C9_ExactlyOne ==
    \A t \in Tasks :
        events[t] > 0 => (response[t].has_result /\ ~response[t].has_error)
                         \/ (response[t].has_error /\ ~response[t].has_result)

\* one request was answered with a result and another with an error
C9_Witness ==
    \E t1, t2 \in Tasks :
        /\ events[t1] = 1 /\ response[t1].has_result /\ Searched(t1)
        /\ events[t2] = 1 /\ response[t2].has_error

\* C10: every POST to /mcp, whatever its outcome, emits exactly one event.
C10_ExactlyOneEvent ==
    \A t \in Tasks : Done(t) => events[t] = 1

\* the step in which a task takes up an initialize or tools/list request
C11_StaticStep(t) ==
    LET b == req'[t] IN
        /\ pc[t] = "idle" /\ pc'[t] # "idle" /\ ~ParseRaises(b)
        /\ b.method \in {"initialize", "tools/list"}
        => /\ pc'[t] = "done" /\ events'[t] = 1
           /\ response'[t].has_result /\ ~response'[t].has_error
           /\ response'[t].result =
                 (IF b.method = "initialize"
                  THEN [kind |-> "capabilities", protocolVersion |-> "2024-11-05", tools |-> TRUE]
                  ELSE [kind |-> "tools", names |-> <<"search_products">>, required |-> <<"query">>])
           /\ session_cache' = session_cache
           /\ loc' = loc
\* C11: initialize and tools/list are answered with the same fixed result
\* in every state, whatever was requested before; handling them leaves the
\* cache as it is and starts no driver and no browser for any task.
C11_StaticNoEffect == [][\A t \in Tasks : C11_StaticStep(t)]_vars

\* a search filled the cache, and the other request, an initialize, got the
\* capability descriptor
C11_Witness ==
    \E t1, t2 \in Tasks :
        /\ Fetched(t1) /\ KeyOf(req[t1]) \in DOMAIN session_cache
        /\ Done(t2) /\ req[t2].method = "initialize" /\ ~ParseRaises(req[t2])
        /\ response[t2].result = Capabilities

\* an entry that is not a complete result dict
C12_Damaged(cached) ==
    IF ~IsDict(cached) THEN TRUE
    ELSE {"query", "price_max", "count", "products", "timestamp"} \ (DOMAIN cached) # {}
\* the cache check of a call that finds a damaged entry under its key
C12_DamagedStep(t) ==
    LET b == req'[t]
        k == KeyOf(b)
    IN  /\ pc[t] = "idle" /\ pc'[t] # "idle" /\ ReachesSearch(b)
        /\ k \in DOMAIN session_cache /\ C12_Damaged(session_cache[k])
        => /\ pc'[t] = "start"
           /\ events'[t] = 0
C13_SessionsClosed ==
    \A t \in Tasks : Done(t) => loc[t].browser # "open"

\* C14: whenever the browser session fails, be it by an exception or by a
\* page that loads but yields no usable candidate, the caller gets the two
\* placeholder products of _fallback_products.
C14_DriftGivesFallback ==
    \A t \in Tasks :
        /\ Done(t) /\ IsNumber(PriceMax(t))
        /\ loc[t].path = "fallback" \/ (loc[t].path = "scraped" /\ loc[t].products = << >>)
        => /\ response[t].has_result
           /\ response[t].result.products = FallbackProducts(Query(t), PriceMax(t), platform)

\* the candidate fails: reading its id raises, it has no id of the right
\* shape, or the extraction gives None (no name, no price, a price above
\* the ceiling, or an exception inside the extraction)
C15_Fails(item) ==
    IF item.id = RaiseText \/ ~ValidId(item.id, platform) THEN TRUE
    ELSE ~Extract(item, scan.price_max, platform).ok
\* the records of the candidates of items that do not fail, in order
RECURSIVE C15_Kept(_)
C15_Kept(items) ==
    IF items = << >> THEN << >>
    ELSE (IF C15_Fails(Head(items)) THEN << >>
          ELSE <<Extract(Head(items), scan.price_max, platform)>>) \o C15_Kept(Tail(items))
\* the loop has taken exactly the candidates that do not fail, and ends
\* only when the items are used up or 6 records are collected
C15_OnlyFailedExcluded ==
    scan.st \in {"loop", "done"} =>
        /\ scan.products = C15_Kept(SubSeq(scan.items, 1, scan.i - 1))
        /\ scan.st = "done" => scan.i > Len(scan.items) \/ Len(scan.products) >= MaxProducts
\* a pass of the loop over a failing candidate
C15_FailedStep ==
    /\ scan.st = "loop" /\ scan.i <= Len(scan.items) /\ scan' # scan
    /\ C15_Fails(scan.items[scan.i])
    => /\ scan'.products = scan.products
       /\ scan'.i = scan.i + 1
       /\ scan'.st = "loop"
\* C15: a candidate that fails (no valid id, no name, no price, price over
\* the ceiling, an exception while it is handled) is left out and nothing
\* else: the loop goes on with the next item, and the call goes on to
\* line 82 with the records of all the other candidates, in order.
C15_CandidateFailureIsLocal == [](C15_OnlyFailedExcluded) /\ [][C15_FailedStep]_vars

\* a page of three items: reading the id of the first raised, the name of
\* the second raised, the third was taken
C15_Witness ==
    /\ scan.st = "done" /\ Len(scan.items) = 3 /\ scan.i = 4
    /\ scan.items[1].id = RaiseText
    /\ ValidId(scan.items[2].id, platform) /\ Sel(scan.items[2].names, 1).st = "raise"
    /\ scan.products = <<Extract(scan.items[3], scan.price_max, platform)>>
    /\ scan.products[1].ok

\* task u is between its cache miss and its store
C16_InFlight(u) == pc[u] \in {"start", "launch", "goto", "query", "close", "stop", "recover"}
\* a call misses while another call for the same key is in flight: it
\* starts a fetch of its own
C16_MissStep(t) ==
    LET b == req'[t]
        k == KeyOf(b)
    IN  /\ pc[t] = "idle" /\ pc'[t] # "idle" /\ ReachesSearch(b)
        /\ k \notin DOMAIN session_cache
        /\ \E u \in Tasks \ {t} : C16_InFlight(u) /\ KeyOf(req[u]) = k
        => /\ pc'[t] = "start" /\ events'[t] = 0
           /\ loc'[t].driver = "none" /\ loc'[t].browser = "none"
\* the store of a call that fetched: the entry of its key becomes its
\* result, every other entry stays
C16_StoreStep(t) ==
    /\ pc[t] # "done" /\ pc'[t] = "done"
    /\ loc'[t].path \in {"scraped", "fallback"}
    => /\ DOMAIN session_cache' = DOMAIN session_cache \cup {KeyOf(req[t])}
       /\ \A k \in DOMAIN session_cache' :
            session_cache'[k] = IF k = KeyOf(req[t]) THEN response'[t].result
                                ELSE session_cache[k]
\* nothing but such a store changes the cache
C16_OnlyStores ==
    session_cache' # session_cache =>
        \E t \in Tasks : pc[t] # "done" /\ pc'[t] = "done" /\ loc'[t].path \in {"scraped", "fallback"}
\* a call that scraped did so with a driver and browser of its own, and
\* when all calls for a key are through, the entry is the result of one of
\* them and no older than any of them
C16_LastWins ==
    /\ \A t \in Tasks :
        Done(t) /\ loc[t].path = "scraped" => loc[t].driver = "stopped" /\ loc[t].browser = "closed"
    /\ (\A t \in Tasks : Done(t)) =>
        \A k \in DOMAIN session_cache :
            /\ \E t \in Tasks : Fetched(t) /\ KeyOf(req[t]) = k /\ session_cache[k] = response[t].result
            /\ \A t \in Tasks :
                Fetched(t) /\ KeyOf(req[t]) = k =>
                    session_cache[k].timestamp >= response[t].result.timestamp
\* C16: calls that miss on the same key at the same time each start their
\* own driver and browser and fetch for themselves; each store replaces the
\* whole entry of the key; when all are through, the entry is the result of
\* the call that stored last.
C16_NoCoalescing ==
    /\ [](C16_LastWins)
    /\ [][C16_OnlyStores /\ \A t \in Tasks : C16_MissStep(t) /\ C16_StoreStep(t)]_vars

\* two calls missed on the same key with no entry in the cache, both
\* scraped, with different results; the cache holds the later one
C16_Witness ==
    \E t1, t2 \in Tasks :
        /\ t1 # t2 /\ KeyOf(req[t1]) = KeyOf(req[t2])
        /\ Done(t1) /\ loc[t1].path = "scraped" /\ loc[t1].stale = -1
        /\ Done(t2) /\ loc[t2].path = "scraped" /\ loc[t2].stale = -1
        /\ response[t1].result.products # response[t2].result.products
        /\ response[t1].result.timestamp < response[t2].result.timestamp
        /\ session_cache[KeyOf(req[t2])] = response[t2].result

\* C17: two search_products calls for the same (query, price_max) that both
\* return within one TTL window (less than 300 seconds apart) return the
\* same products, also when they overlap and both miss the cache.
C17_SameResultInWindow ==
    \A t1, t2 \in Tasks :
        /\ Searched(t1) /\ Searched(t2) /\ KeyOf(req[t1]) = KeyOf(req[t2])
        /\ response[t2].result.timestamp - response[t1].result.timestamp < cache_timeout
        /\ response[t1].result.timestamp - response[t2].result.timestamp < cache_timeout
        => /\ response[t1].result.products = response[t2].result.products
           /\ response[t1].result.count = response[t2].result.count

\* a call that has started, that is, gone past its cache check
C18_Started(t) == pc[t] \in {"start", "launch", "goto", "query", "close", "stop", "recover"}
\* every started call comes to its end
C18_Terminates == \A t \in Tasks : C18_Started(t) ~> Done(t)
\* a call that started and has come to its end has returned a result
C18_ReturnedResult ==
    \A t \in Tasks :
        Done(t) /\ loc[t].path \in {"scraped", "fallback", "raised"} => response[t].has_result
\* C18: every search_products call that has started eventually returns a
\* result, scraped or fallback, given that every awaited browser call
\* completes or raises.
C18_EventuallyReturns == [](C18_ReturnedResult) /\ C18_Terminates

\* the item is an acceptable candidate: its id can be read and has the
\* right shape, and the extraction gives a record
C19_Acceptable(item) ==
    IF item.id = RaiseText \/ ~ValidId(item.id, platform) THEN FALSE
    ELSE Extract(item, scan.price_max, platform).ok
\* the records of the acceptable items of a list, in order
RECURSIVE C19_Accepted(_)
C19_Accepted(items) ==
    IF items = << >> THEN << >>
    ELSE (IF C19_Acceptable(Head(items))
          THEN <<Extract(Head(items), scan.price_max, platform)>> ELSE << >>)
         \o C19_Accepted(Tail(items))
C19_First(seq, n) == SubSeq(seq, 1, Min(n, Len(seq)))
\* C19: the loop examines the items of the page in order from the first,
\* never one past position 12 and never one after the 6th accepted; when
\* it is through, products is the first 6 (or fewer) records of the
\* acceptable items among the first 12 of the page, in page order, the
\* same list the scraping call works with.
C19_FirstSixOfTwelve ==
    scan.st \in {"loop", "done"} =>
        /\ scan.items = C19_First(scan.all_items, Len(scan.items))
        /\ scan.i - 1 <= TopItems /\ scan.i - 1 <= Len(scan.all_items)
        /\ scan.i >= 2 =>
             Len(C19_Accepted(C19_First(scan.all_items, scan.i - 2))) < MaxProducts
        /\ scan.st = "done" =>
             /\ scan.products =
                  C19_First(C19_Accepted(C19_First(scan.all_items, TopItems)), MaxProducts)
             /\ scan.products = ScrapePage(scan.all_items, scan.price_max, platform)

\* a page of more than 12 items whose 13th is acceptable: the loop is
\* through with fewer than 6 records, none of them from the 13th
C19_Witness ==
    /\ scan.st = "done" /\ Len(scan.all_items) > TopItems
    /\ C19_Acceptable(scan.all_items[TopItems + 1])
    /\ scan.i - 1 = TopItems
    /\ Len(scan.products) > 0 /\ Len(scan.products) < MaxProducts

\* what one name strategy yields: the element's text if longer than 5,
\* else its title if longer than 5; nothing (NoneText) when the selector
\* matches no element, raises, or gives neither
C20_NameBy(el) ==
    IF el.st # "el" THEN NoneText
    ELSE IF el.inner.n > 5 THEN el.inner
    ELSE IF el.title.n > 5 THEN el.title
    ELSE NoneText
\* what one price strategy yields: the first run of digits of the element's
\* text as a number, a non-negative integer; nothing (-1) otherwise
C20_PriceBy(el) ==
    IF el.st # "el" \/ FirstDigitRun(FlipkartPriceClean(el.text)) = << >> THEN -1
    ELSE ToInt(FirstDigitRun(FlipkartPriceClean(el.text)))
\* the value of the first strategy, in list order, that yields one; for the
\* price the scan of the whole item text comes last
C20_FirstName(item) ==
    LET ks == {k \in 1..Len(item.names) : C20_NameBy(item.names[k]) # NoneText} IN
    IF ks = {} THEN NoneText
    ELSE C20_NameBy(item.names[CHOOSE k \in ks : \A j \in ks : k <= j])
C20_FirstPrice(item) ==
    LET ks == {k \in 1..Len(item.prices) : C20_PriceBy(item.prices[k]) >= 0} IN
    IF ks = {} THEN FlipkartPatternPrice(item, 1)
    ELSE C20_PriceBy(item.prices[CHOOSE k \in ks : \A j \in ks : k <= j])
\* C20: the name and the price of a record extracted from a Flipkart item
\* are the values of the first strategy, in list order, that yields a valid
\* value (a name longer than 5, a non-negative integer price); strategies
\* that raise are passed over, and no later strategy, the scan of the whole
\* item text included, replaces a value once found.
C20_FirstValidWins ==
    scan.st = "done" /\ platform = "flipkart" /\ scan.products # << >> =>
        /\ scan.products[1].name = Cut(C20_FirstName(scan.all_items[1]), NameCut)
        /\ scan.products[1].price_num = C20_FirstPrice(scan.all_items[1])

\* the length of the text the name of record p was taken from: the name
\* element's stripped text, or its title
C21_SourceLen(item, p) ==
    LET el == item.names[1] IN
    IF p.name.s = el.inner.s THEN el.inner.n ELSE el.title.n
\* C21: the name of every record either service extracts comes from a text
\* longer than 5 characters, and the record's name has at most 80.
C21_NameLength ==
    scan.st = "done" /\ scan.products # << >> =>
        /\ C21_SourceLen(scan.all_items[1], scan.products[1]) > 5
        /\ scan.products[1].name.n <= 80

\* C22: _fallback_products gives exactly 2 records without a listing id;
\* the first price is 60% of price_max rounded down, the second is 20%
\* above the first (rounded down), and both are non-negative and at most
\* price_max, whatever price_max is.
C22_FallbackPrices ==
    scan.st = "done" =>
        /\ Len(scan.products) = 2
        /\ \A i \in 1..2 :
            /\ scan.products[i].id = NoneText
            /\ scan.products[i].price_num >= 0
            /\ scan.products[i].price_num <= scan.price_max.v
        /\ scan.products[1].price_num = (scan.price_max.v * 60) \div 100
        /\ scan.products[2].price_num = (scan.products[1].price_num * 120) \div 100

\* the first maximal run of digits of a price text once currency symbols,
\* thousands separators and whitespace are removed, and nothing else
C23_Cleaned(price_text) == Strip(price_text, {Rupee, ","} \cup Whitespace)
\* C23: a record's numeric price is the first maximal digit run of the price
\* text after removing only currency symbols, thousands separators and
\* whitespace, so a text with a decimal part gives the whole-rupee amount on
\* both services.
C23_WholeRupees ==
    scan.st = "done" /\ scan.products # << >> =>
        scan.products[1].price_num =
            ToInt(FirstDigitRun(C23_Cleaned(scan.all_items[1].prices[1].text)))

\* a link to the listing: it has a href with the product-path marker or the
\* item-id parameter that is absolute or rooted and is not a search page
C24_ListingLink(link) ==
    /\ link.st = "href"
    /\ Contains(link.href, PathMarker) \/ Contains(link.href, IdParam)
    /\ StartsWithHttp(link.href) \/ StartsWithSlash(link.href)
    /\ ~Contains(BeforeQuery(link.href), SearchPath)
\* an absolute url that still carries one of the two and no other parameter
C24_Listing(url) ==
    /\ StartsWithHttp(url)
    /\ Contains(url, PathMarker) \/ Contains(url, IdParam)
    /\ ~Contains(url, "lid=")
\* C24: the url of every Flipkart record identifies the item: an absolute
\* listing url that still carries the product-path marker or the item-id
\* parameter, other parameters stripped, or, when the item has no such link,
\* the search url with the item's data-id.
C24_UrlIdentifiesItem ==
    scan.st = "done" =>
        \/ C24_Listing(scan.url)
        \/ /\ scan.url = SearchUrl(QueryWords, scan.product_id)
           /\ \A k \in 1..Len(scan.all_links) : ~C24_ListingLink(scan.all_links[k])

\* a live entry of the cache for the query and, as a number, the ceiling of
\* body b
C25_LiveEntries(b) ==
    { k \in DOMAIN session_cache :
        /\ session_cache[k].query = b.args.query
        /\ session_cache[k].price_max.v = PriceMaxOf(b).v
        /\ clock - session_cache[k].timestamp < cache_timeout }
\* the search of task t arrives: it is answered from the cache exactly when
\* there is such an entry, and with that entry
C25_ArriveStep(t) ==
    pc[t] = "idle" /\ pc'[t] # "idle" /\ ReachesSearch(req'[t]) =>
        /\ loc'[t].path = "hit" <=> C25_LiveEntries(req'[t]) # {}
        /\ loc'[t].path = "hit" =>
            \E k \in C25_LiveEntries(req'[t]) : response'[t].result = session_cache[k]
\* C25: two searches are served by the same cache entry exactly when their
\* queries are equal and their ceilings are equal as numbers, 2000 and
\* 2000.0 and a left-out price_max and 40000 included.
C25_NumericKey == [][\A t \in Tasks : C25_ArriveStep(t)]_vars

\* task t is in the except branch because browser.close() or stop() raised
\* after the loop: it holds records, or its browser is already closed
C26_TeardownRaised(t) ==
    pc[t] = "recover" /\ (loc[t].products # << >> \/ loc[t].browser = "closed")
\* such a call ends: what it returns and stores is the result with the 2
\* fallback records
C26_DiscardStep(t) ==
    C26_TeardownRaised(t) /\ pc'[t] = "done" =>
        /\ response'[t].has_result
        /\ response'[t].result.count = 2
        /\ response'[t].result.products = FallbackProducts(Query(t), PriceMax(t), platform)
        /\ KeyOf(req[t]) \in DOMAIN session_cache'
        /\ session_cache'[KeyOf(req[t])] = response'[t].result
\* C26: when navigation, enumeration and extraction complete and closing the
\* browser or stopping the driver then raises, the collected records are
\* discarded: the returned and cached result holds exactly the 2 fallback
\* records.
C26_TeardownDiscards == [][\A t \in Tasks : C26_DiscardStep(t)]_vars

====
